---- MODULE Spec2Model ----
(***************************************************************************)
(* Model of the OpenGL painter state machine (PainterOGL) and of the map   *)
(* view compositor (MapViewPainter) of otclient.                           *)
(*                                                                         *)
(* The painter is one record, `painter`, whose fields carry the names of   *)
(* the members of PainterOGL.  Every method is an operator from painter    *)
(* records to painter records, composed the way the methods call each      *)
(* other; an action applies one public method.  The fields gl, projCalls   *)
(* and status are observers: the OpenGL calls issued and the projection    *)
(* matrices computed by the method that ran last, and whether the process  *)
(* is still running ("ok"), was stopped by a failed assert ("assert"), or  *)
(* ran into undefined behaviour ("fault": a wild pointer was dereferenced, *)
(* "corrupt": memory outside m_olderStates was read).                      *)
(***************************************************************************)
EXTENDS Integers, Sequences, FiniteSets, TLC

VARIABLES painter, lastOp, calls, g_graphics, mapView, frame, tileCheck, g_map

vars == <<painter, lastOp, calls, g_graphics, mapView, frame, tileCheck, g_map>>

----------------------------------------------------------------------------
(* Bounds of the exploration *)

\* resolutions are drawn from (1..MaxDim) x (1..MaxDim)
MaxDim == 2
\* number of calls other than saveState and saveAndResetState in one run
MaxSets == 2
\* number of translate calls made around the pushes and pops
MaxTranslates == 1
\* tiles are drawn from the square of this half-width around the camera
MaxOffset == 3
\* the map has the floors 0..MaxFloor
MaxFloor == 7

----------------------------------------------------------------------------
(* Values *)

Null == "null"
Wild == "wild"
Indeterminate == "indeterminate"

RECURSIVE Gcd(_, _)
Gcd(a, b) == IF b = 0 THEN a ELSE Gcd(b, a % b)

\* n / d (d # 0) as a fraction in lowest terms with a positive denominator
Frac(n, d) ==
    LET sn == IF d < 0 THEN -n ELSE n
        sd == IF d < 0 THEN -d ELSE d
        a == IF sn < 0 THEN -sn ELSE sn
        k == Gcd(a, sd)
    IN  <<sn \div k, sd \div k>>

Identity == <<1, 0, 0, 0, 1, 0, 0, 0, 1>>

\* row-major product of two 3x3 matrices
MatMul(A, B) ==
    [i \in 1..9 |->
        LET r == (i - 1) \div 3
            c == (i - 1) % 3
        IN  A[3 * r + 1] * B[c + 1] + A[3 * r + 2] * B[c + 4] + A[3 * r + 3] * B[c + 7]]

Transposed(A) == <<A[1], A[4], A[7], A[2], A[5], A[8], A[3], A[6], A[9]>>

IdentityQ == [i \in 1..9 |-> Frac(Identity[i], 1)]

NoSize == <<-1, -1>>
Sizes == (1..MaxDim) \X (1..MaxDim)

Colors == {"white", "red"}
Opacities == {100, 65}
CompositionModes == {"Normal", "Multiply", "Add", "Replace", "DestBlending", "Light"}
BlendEquations == {"Add", "Max", "Min", "Subtract", "Rever_Subtract"}
Shaders == {Null, "S1"}

\* a clip rect by what the painter reads of it
InvalidRect == [valid |-> FALSE, left |-> 0, bottom |-> -1, width |-> 0, height |-> 0]
ClipRects == {InvalidRect,
              [valid |-> TRUE, left |-> 0, bottom |-> 0, width |-> 1, height |-> 1],
              [valid |-> TRUE, left |-> 1, bottom |-> 1, width |-> 1, height |-> 1]}

\* texture objects: T1 and T2 are loaded textures, TE is an empty one (GL id 0)
Textures == {"T1", "T2", "TE"}
TextureId(t) == CASE t = "T1" -> 1 [] t = "T2" -> 2 [] OTHER -> 0
TextureMatrix(t) ==
    CASE t = "T1" -> <<2, 0, 0, 0, 2, 0, 0, 0, 1>>
      [] t = "T2" -> <<4, 0, 0, 0, 4, 0, 0, 0, 1>>
      [] OTHER    -> Identity

----------------------------------------------------------------------------
(* PainterOGL *)

Emit(P, call) == [P EXCEPT !.gl = Append(@, call)]

updateGlViewport(P) ==
    Emit(P, <<"glViewport", <<0, 0, P.m_resolution[1], P.m_resolution[2]>>>>)

updateGlTexture(P) ==
    IF P.m_glTextureId # 0
    THEN Emit(P, <<"glBindTexture", P.m_glTextureId>>)
    ELSE P

updateGlCompositionMode(P) ==
    CASE P.m_compositionMode = "Normal" ->
            IF g_graphics.canUseBlendFuncSeparate
            THEN Emit(P, <<"glBlendFuncSeparate", "Normal">>)
            ELSE Emit(P, <<"glBlendFunc", "Normal">>)
      [] OTHER -> Emit(P, <<"glBlendFunc", P.m_compositionMode>>)

updateGlBlendEquation(P) ==
    IF ~g_graphics.canUseBlendEquation
    THEN P
    ELSE Emit(P, <<"glBlendEquation", P.m_blendEquation>>)

updateGlClipRect(P) ==
    IF P.m_clipRect.valid
    THEN Emit(Emit(P, <<"glEnable", "GL_SCISSOR_TEST">>),
              <<"glScissor", <<P.m_clipRect.left,
                               P.m_resolution[2] - P.m_clipRect.bottom - 1,
                               P.m_clipRect.width, P.m_clipRect.height>>>>)
    ELSE Emit(Emit(P, <<"glScissor", <<0, 0, P.m_resolution[1], P.m_resolution[2]>>>>),
              <<"glDisable", "GL_SCISSOR_TEST">>)

updateGlAlphaWriting(P) ==
    IF P.m_alphaWriting
    THEN Emit(P, <<"glColorMask", <<1, 1, 1, 1>>>>)
    ELSE Emit(P, <<"glColorMask", <<1, 1, 1, 0>>>>)

\* the setters the header defines inline: plain assignments
setColor(P, color) == [P EXCEPT !.m_color = color]
setOpacity(P, opacity) == [P EXCEPT !.m_opacity = opacity]
setShaderProgram(P, shader) == [P EXCEPT !.m_shaderProgram = shader]
setTransformMatrix(P, m) == [P EXCEPT !.m_transformMatrix = m]
setTextureMatrix(P, m) == [P EXCEPT !.m_textureMatrix = m]
setProjectionMatrix(P, m) == [P EXCEPT !.m_projectionMatrix = m]

setCompositionModeAlways(P, compositionMode) ==
    updateGlCompositionMode([P EXCEPT !.m_compositionMode = compositionMode])

setCompositionMode(P, compositionMode) ==
    IF P.m_compositionMode = compositionMode
    THEN P
    ELSE updateGlCompositionMode([P EXCEPT !.m_compositionMode = compositionMode])

setBlendEquation(P, blendEquation) ==
    IF P.m_blendEquation = blendEquation
    THEN P
    ELSE updateGlBlendEquation([P EXCEPT !.m_blendEquation = blendEquation])

setClipRect(P, clipRect) ==
    IF P.m_clipRect = clipRect
    THEN P
    ELSE updateGlClipRect([P EXCEPT !.m_clipRect = clipRect])

\* texture is Null, a texture object, or Wild (a pointer to no object)
setTexture(P, texture) ==
    IF P.m_texture = texture
    THEN P
    ELSE IF texture = Wild
    THEN [P EXCEPT !.m_texture = texture, !.status = "fault"]
    ELSE LET P1 == [P EXCEPT !.m_texture = texture]
             P2 == IF texture # Null THEN setTextureMatrix(P1, TextureMatrix(texture)) ELSE P1
             glTextureId == IF texture # Null THEN TextureId(texture) ELSE 0
         IN  IF P2.m_glTextureId # glTextureId
             THEN updateGlTexture([P2 EXCEPT !.m_glTextureId = glTextureId])
             ELSE P2

setAlphaWriting(P, enable) ==
    IF P.m_alphaWriting = enable
    THEN P
    ELSE updateGlAlphaWriting([P EXCEPT !.m_alphaWriting = enable])

ProjectionFor(resolution) ==
    <<Frac(2, resolution[1]), Frac(0, 1), Frac(0, 1),
      Frac(0, 1), Frac(-2, resolution[2]), Frac(0, 1),
      Frac(-1, 1), Frac(1, 1), Frac(1, 1)>>

setResolutionAlways(P, resolution) ==
    LET P1 == [P EXCEPT !.projCalls = @ + 1, !.m_resolution = resolution]
        P2 == setProjectionMatrix(P1, ProjectionFor(resolution))
    IN  IF g_graphics.painterIsCurrent THEN updateGlViewport(P2) ELSE P2

setResolution(P, resolution) ==
    IF resolution = P.m_resolution
    THEN P
    ELSE LET P1 == [P EXCEPT !.projCalls = @ + 1, !.m_resolution = resolution]
             P2 == setProjectionMatrix(P1, ProjectionFor(resolution))
         IN  IF g_graphics.painterIsCurrent THEN updateGlViewport(P2) ELSE P2

----------------------------------------------------------------------------
(* transform composition and the transform stack *)

translate(P, x, y) ==
    LET translateMatrix == <<1, 0, x, 0, 1, y, 0, 0, 1>>
    IN  setTransformMatrix(P, MatMul(P.m_transformMatrix, Transposed(translateMatrix)))

TransformStackLimit == 100

\* the matrix is appended first, the size is asserted afterwards
pushTransformMatrix(P) ==
    LET P1 == [P EXCEPT !.m_transformMatrixStack = Append(@, P.m_transformMatrix)]
    IN  IF Len(P1.m_transformMatrixStack) < TransformStackLimit
        THEN P1
        ELSE [P1 EXCEPT !.status = "assert"]

popTransformMatrixOldest(P) ==
    IF ~(Len(P.m_transformMatrixStack) > 0)
    THEN [P EXCEPT !.status = "assert"]
    ELSE LET n == Len(P.m_transformMatrixStack)
             P1 == setTransformMatrix(P, P.m_transformMatrixStack[1])
         IN  [P1 EXCEPT !.m_transformMatrixStack = SubSeq(@, 2, n)]

popTransformMatrix(P) ==
    IF ~(Len(P.m_transformMatrixStack) > 0)
    THEN [P EXCEPT !.status = "assert"]
    ELSE LET n == Len(P.m_transformMatrixStack)
             P1 == setTransformMatrix(P, P.m_transformMatrixStack[n])
         IN  [P1 EXCEPT !.m_transformMatrixStack = SubSeq(@, 1, n - 1)]

----------------------------------------------------------------------------
(* the stack of saved states *)

OlderStatesSize == 10

DefaultColor == "white"
DefaultOpacity == 100
DefaultCompositionMode == "Normal"
DefaultBlendEquation == "Add"

\* state.texture is never assigned: the snapshot holds an indeterminate pointer
getCurrentState(P) ==
    [resolution       |-> P.m_resolution,
     transformMatrix  |-> P.m_transformMatrix,
     projectionMatrix |-> P.m_projectionMatrix,
     textureMatrix    |-> P.m_textureMatrix,
     color            |-> P.m_color,
     opacity          |-> P.m_opacity,
     compositionMode  |-> P.m_compositionMode,
     blendEquation    |-> P.m_blendEquation,
     clipRect         |-> P.m_clipRect,
     shaderProgram    |-> P.m_shaderProgram,
     alphaWriting     |-> P.m_alphaWriting,
     texture          |-> Indeterminate]

\* Slot i of m_olderStates is element i + 1 of the sequence.  The slots at and
\* above m_oldStateIndex are left out: saveState overwrites a slot before any
\* restoreSavedState reads it.
saveState(P) ==
    IF ~(P.m_oldStateIndex < OlderStatesSize)
    THEN [P EXCEPT !.status = "assert"]
    ELSE [P EXCEPT !.m_olderStates = Append(@, getCurrentState(P)),
                   !.m_oldStateIndex = @ + 1]

\* texture: the value the indeterminate state.texture turns out to hold
executeState(P, state, texture) ==
    LET P1 == setColor(P, state.color)
        P2 == setOpacity(P1, state.opacity)
        P3 == setCompositionMode(P2, state.compositionMode)
        P4 == setBlendEquation(P3, state.blendEquation)
        P5 == setClipRect(P4, state.clipRect)
        P6 == setShaderProgram(P5, state.shaderProgram)
        P7 == setAlphaWriting(P6, state.alphaWriting)
        P8 == setTransformMatrix(P7, state.transformMatrix)
    IN  setTexture(P8, IF state.texture = Indeterminate THEN texture ELSE state.texture)

resetStateKeepsClipRect(P) ==
    LET P1 == setColor(P, DefaultColor)
        P2 == setOpacity(P1, DefaultOpacity)
        P3 == setCompositionMode(P2, DefaultCompositionMode)
        P4 == setBlendEquation(P3, DefaultBlendEquation)
        P6 == setShaderProgram(P4, Null)
        P7 == setTexture(P6, Null)
        P8 == setAlphaWriting(P7, FALSE)
    IN  setTransformMatrix(P8, Identity)

resetState(P) ==
    LET P1 == setColor(P, DefaultColor)
        P2 == setOpacity(P1, DefaultOpacity)
        P3 == setCompositionMode(P2, DefaultCompositionMode)
        P4 == setBlendEquation(P3, DefaultBlendEquation)
        P5 == setClipRect(P4, InvalidRect)
        P6 == setShaderProgram(P5, Null)
        P7 == setTexture(P6, Null)
        P8 == setAlphaWriting(P7, FALSE)
    IN  setTransformMatrix(P8, Identity)

saveAndResetState(P) ==
    LET P1 == saveState(P)
    IN  IF P1.status = "ok" THEN resetState(P1) ELSE P1

\* No check of m_oldStateIndex: at index 0 the index becomes -1 and the slot read
\* lies outside m_olderStates; outOfBounds is what that memory holds.
restoreSavedState(P, texture, outOfBounds) ==
    LET index == P.m_oldStateIndex - 1
        state == IF index >= 0 THEN P.m_olderStates[index + 1] ELSE outOfBounds
        P0 == [P EXCEPT !.m_oldStateIndex = index,
                        !.m_olderStates = IF index >= 0 THEN SubSeq(@, 1, index) ELSE @,
                        !.status = IF index >= 0 THEN @ ELSE "corrupt"]
        P1 == setResolution(P0, state.resolution)
        P2 == setTransformMatrix(P1, state.transformMatrix)
        P3 == setTextureMatrix(P2, state.textureMatrix)
    IN  executeState(P3, state, texture)

\* the members before the constructor's body runs
Members ==
    [m_resolution |-> NoSize,
     m_projectionMatrix |-> IdentityQ,
     m_transformMatrix |-> Identity,
     m_textureMatrix |-> Identity,
     m_clipRect |-> InvalidRect,
     m_transformMatrixStack |-> <<>>,
     m_olderStates |-> <<>>,
     m_glTextureId |-> 0,
     m_oldStateIndex |-> 0,
     m_color |-> DefaultColor,
     m_opacity |-> DefaultOpacity,
     m_compositionMode |-> DefaultCompositionMode,
     m_blendEquation |-> DefaultBlendEquation,
     m_shaderProgram |-> Null,
     m_texture |-> Null,
     m_alphaWriting |-> FALSE,
     status |-> "ok", gl |-> <<>>, projCalls |-> 0]

PainterOGL(windowSize) == setResolution(Members, windowSize)

----------------------------------------------------------------------------
(* MapViewPainter::canRenderTile *)

\* the camera of the scenarios: position (10, 10, 7)
CameraPosition == <<10, 10, 7>>

\* Position::translated(dx, dy)
translated(pos, dx, dy) == <<pos[1] + dx, pos[2] + dy, pos[3]>>

\* a cast to int8
Int8(n) == ((n + 128) % 256) - 128

\* a LightViewPtr: the null pointer, or a light view that is dark or not
NoLightView == [null |-> TRUE, isDark |-> FALSE]
LightViews == {NoLightView, [null |-> FALSE, isDark |-> FALSE], [null |-> FALSE, isDark |-> TRUE]}

canRenderTileBothFlagsOnEdge(mv, tile, viewPort, lightView) ==
    IF mv.m_drawViewportEdge \/ (~lightView.null /\ lightView.isDark /\ tile.hasLight)
    THEN TRUE
    ELSE
        LET cameraPosition == mv.cameraPosition
            tilePos == tile.pos
            dz == Int8(tilePos[3] - cameraPosition[3])
            checkPos == translated(tilePos, dz, dz)
        IN  IF \/ cameraPosition[1] - checkPos[1] >= viewPort.left
               \/ (/\ checkPos[1] - cameraPosition[1] = viewPort.right
                   /\ (~tile.hasWideThings \/ ~tile.hasDisplacement))
            THEN FALSE
            ELSE IF \/ cameraPosition[2] - checkPos[2] >= viewPort.top
                    \/ (/\ checkPos[2] - cameraPosition[2] = viewPort.bottom
                        /\ ~tile.hasTallThings /\ ~tile.hasDisplacement)
            THEN FALSE
            ELSE IF \/ (/\ checkPos[1] - cameraPosition[1] > viewPort.right
                        /\ (~tile.hasWideThings \/ ~tile.hasDisplacement))
                    \/ checkPos[2] - cameraPosition[2] > viewPort.bottom
            THEN FALSE
            ELSE TRUE

canRenderTileLeftTopExempt(mv, tile, viewPort, lightView) ==
    IF mv.m_drawViewportEdge \/ (~lightView.null /\ lightView.isDark /\ tile.hasLight)
    THEN TRUE
    ELSE
        LET cameraPosition == mv.cameraPosition
            tilePos == tile.pos
            dz == Int8(tilePos[3] - cameraPosition[3])
            checkPos == translated(tilePos, dz, dz)
            exempt == tile.hasWideThings \/ tile.hasTallThings \/ tile.hasDisplacement
        IN  IF \/ (cameraPosition[1] - checkPos[1] >= viewPort.left /\ ~exempt)
               \/ (/\ checkPos[1] - cameraPosition[1] = viewPort.right
                   /\ ~tile.hasWideThings /\ ~tile.hasDisplacement)
            THEN FALSE
            ELSE IF \/ (cameraPosition[2] - checkPos[2] >= viewPort.top /\ ~exempt)
                    \/ (/\ checkPos[2] - cameraPosition[2] = viewPort.bottom
                        /\ ~tile.hasTallThings /\ ~tile.hasDisplacement)
            THEN FALSE
            ELSE IF \/ (/\ checkPos[1] - cameraPosition[1] > viewPort.right
                        /\ (~tile.hasWideThings \/ ~tile.hasDisplacement))
                    \/ checkPos[2] - cameraPosition[2] > viewPort.bottom
            THEN FALSE
            ELSE TRUE

canRenderTileNoBeyond(mv, tile, viewPort, lightView) ==
    IF mv.m_drawViewportEdge \/ (~lightView.null /\ lightView.isDark /\ tile.hasLight)
    THEN TRUE
    ELSE
        LET cameraPosition == mv.cameraPosition
            tilePos == tile.pos
            dz == Int8(tilePos[3] - cameraPosition[3])
            checkPos == translated(tilePos, dz, dz)
        IN  IF \/ cameraPosition[1] - checkPos[1] >= viewPort.left
               \/ (/\ checkPos[1] - cameraPosition[1] = viewPort.right
                   /\ ~tile.hasWideThings /\ ~tile.hasDisplacement)
            THEN FALSE
            ELSE IF \/ cameraPosition[2] - checkPos[2] >= viewPort.top
                    \/ (/\ checkPos[2] - cameraPosition[2] = viewPort.bottom
                        /\ ~tile.hasTallThings /\ ~tile.hasDisplacement)
            THEN FALSE
            ELSE TRUE

canRenderTileEdgeOnly(mv, tile, viewPort, lightView) ==
    IF mv.m_drawViewportEdge
    THEN TRUE
    ELSE
        LET cameraPosition == mv.cameraPosition
            tilePos == tile.pos
            dz == Int8(tilePos[3] - cameraPosition[3])
            checkPos == translated(tilePos, dz, dz)
        IN  IF \/ cameraPosition[1] - checkPos[1] >= viewPort.left
               \/ (/\ checkPos[1] - cameraPosition[1] = viewPort.right
                   /\ ~tile.hasWideThings /\ ~tile.hasDisplacement)
            THEN FALSE
            ELSE IF \/ cameraPosition[2] - checkPos[2] >= viewPort.top
                    \/ (/\ checkPos[2] - cameraPosition[2] = viewPort.bottom
                        /\ ~tile.hasTallThings /\ ~tile.hasDisplacement)
            THEN FALSE
            ELSE IF \/ (/\ checkPos[1] - cameraPosition[1] > viewPort.right
                        /\ (~tile.hasWideThings \/ ~tile.hasDisplacement))
                    \/ checkPos[2] - cameraPosition[2] > viewPort.bottom
            THEN FALSE
            ELSE TRUE

canRenderTileNoFloorShift(mv, tile, viewPort, lightView) ==
    IF mv.m_drawViewportEdge \/ (~lightView.null /\ lightView.isDark /\ tile.hasLight)
    THEN TRUE
    ELSE
        LET cameraPosition == mv.cameraPosition
            tilePos == tile.pos
            dz == Int8(tilePos[3] - cameraPosition[3])
            checkPos == tilePos
        IN  IF \/ cameraPosition[1] - checkPos[1] >= viewPort.left
               \/ (/\ checkPos[1] - cameraPosition[1] = viewPort.right
                   /\ ~tile.hasWideThings /\ ~tile.hasDisplacement)
            THEN FALSE
            ELSE IF \/ cameraPosition[2] - checkPos[2] >= viewPort.top
                    \/ (/\ checkPos[2] - cameraPosition[2] = viewPort.bottom
                        /\ ~tile.hasTallThings /\ ~tile.hasDisplacement)
            THEN FALSE
            ELSE IF \/ (/\ checkPos[1] - cameraPosition[1] > viewPort.right
                        /\ (~tile.hasWideThings \/ ~tile.hasDisplacement))
                    \/ checkPos[2] - cameraPosition[2] > viewPort.bottom
            THEN FALSE
            ELSE TRUE

canRenderTile(mv, tile, viewPort, lightView) ==
    IF mv.m_drawViewportEdge \/ (~lightView.null /\ lightView.isDark /\ tile.hasLight)
    THEN TRUE
    ELSE
        LET cameraPosition == mv.cameraPosition
            tilePos == tile.pos
            dz == Int8(tilePos[3] - cameraPosition[3])
            checkPos == translated(tilePos, dz, dz)
        IN  IF \/ cameraPosition[1] - checkPos[1] >= viewPort.left
               \/ (/\ checkPos[1] - cameraPosition[1] = viewPort.right
                   /\ ~tile.hasWideThings /\ ~tile.hasDisplacement)
            THEN FALSE
            ELSE IF \/ cameraPosition[2] - checkPos[2] >= viewPort.top
                    \/ (/\ checkPos[2] - cameraPosition[2] = viewPort.bottom
                        /\ ~tile.hasTallThings /\ ~tile.hasDisplacement)
            THEN FALSE
            ELSE IF \/ (/\ checkPos[1] - cameraPosition[1] > viewPort.right
                        /\ (~tile.hasWideThings \/ ~tile.hasDisplacement))
                    \/ checkPos[2] - cameraPosition[2] > viewPort.bottom
            THEN FALSE
            ELSE TRUE

----------------------------------------------------------------------------
(* Actions: one call of a public method each *)

\* a method starts with nothing issued yet
Fresh(P) == [P EXCEPT !.gl = <<>>, !.projCalls = 0]

\* the contents of the memory in front of m_olderStates
OutOfBounds(P) == {getCurrentState(Members), getCurrentState(P)}

Counted(budgeted) ==
    IF budgeted THEN calls < MaxSets /\ calls' = calls + 1 ELSE UNCHANGED calls

\* lastOp.rep: the call repeats the call before it, method and argument
Call(op, arg, P) ==
    /\ painter.status = "ok"
    /\ painter' = P
    /\ lastOp' = [op |-> op, arg |-> arg, rep |-> (lastOp.op = op /\ lastOp.arg = arg)]
    /\ UNCHANGED <<g_graphics, mapView, frame, tileCheck, g_map>>

SetColor(S, b) ==
    \E c \in S : Counted(b) /\ Call("setColor", c, setColor(Fresh(painter), c))

SetOpacity(S, b) ==
    \E o \in S : Counted(b) /\ Call("setOpacity", o, setOpacity(Fresh(painter), o))

SetShaderProgram(S, b) ==
    \E s \in S :
        Counted(b) /\ Call("setShaderProgram", s, setShaderProgram(Fresh(painter), s))

SetCompositionMode(S, b) ==
    \E m \in S :
        Counted(b) /\ Call("setCompositionMode", m, setCompositionMode(Fresh(painter), m))

SetBlendEquation(S, b) ==
    \E e \in S :
        Counted(b) /\ Call("setBlendEquation", e, setBlendEquation(Fresh(painter), e))

SetClipRect(S, b) ==
    \E r \in S : Counted(b) /\ Call("setClipRect", r, setClipRect(Fresh(painter), r))

SetTexture(S, b) ==
    \E t \in S :
        Counted(b) /\ Call("setTexture", t, setTexture(Fresh(painter), t))

SetAlphaWriting(S, b) ==
    \E a \in S :
        Counted(b) /\ Call("setAlphaWriting", a, setAlphaWriting(Fresh(painter), a))

SetResolution(S, b) ==
    \E r \in S : Counted(b) /\ Call("setResolution", r, setResolution(Fresh(painter), r))

Offsets == {<<1, 0>>, <<0, 1>>}

Translate(S, b) ==
    \E d \in S :
        Counted(b) /\ Call("translate", d, translate(Fresh(painter), d[1], d[2]))

TranslateBetween ==
    /\ calls < MaxTranslates
    /\ calls' = calls + 1
    /\ \E d \in Offsets : Call("translate", d, translate(Fresh(painter), d[1], d[2]))

PushTransformMatrix ==
    /\ UNCHANGED calls
    /\ Call("pushTransformMatrix", Len(painter.m_transformMatrixStack),
            pushTransformMatrix(Fresh(painter)))

PopTransformMatrix ==
    /\ UNCHANGED calls
    /\ Call("popTransformMatrix", Len(painter.m_transformMatrixStack),
            popTransformMatrix(Fresh(painter)))

\* the argument recorded for the stack methods is the depth they were called at
SaveState ==
    /\ UNCHANGED calls
    /\ Call("saveState", painter.m_oldStateIndex, saveState(Fresh(painter)))

SaveAndResetState ==
    /\ Counted(TRUE)
    /\ Call("saveAndResetState", painter.m_oldStateIndex, saveAndResetState(Fresh(painter)))

\* S: what the indeterminate state.texture may turn out to hold
RestoreSavedState(S) ==
    /\ Counted(TRUE)
    /\ \E texture \in S, outOfBounds \in OutOfBounds(painter) :
           Call("restoreSavedState", painter.m_oldStateIndex,
                restoreSavedState(Fresh(painter), texture, outOfBounds))

ResetState ==
    /\ Counted(TRUE)
    /\ Call("resetState", Null, resetState(Fresh(painter)))

----------------------------------------------------------------------------
(* The memoized setters on their own *)

NoOp == [op |-> "PainterOGL", arg |-> Null, rep |-> FALSE]

\* no map view exists while the painter is exercised on its own
NoMapView == mapView = Null /\ frame = Null /\ tileCheck = Null /\ g_map = Null

\* composition mode, blend equation, clip rect, texture and alpha writing
InitSetters ==
    /\ g_graphics \in [canUseBlendFuncSeparate : BOOLEAN,
                       canUseBlendEquation : BOOLEAN,
                       painterIsCurrent : {TRUE}]
    /\ painter = Fresh(PainterOGL(<<MaxDim, MaxDim>>))
    /\ lastOp = NoOp
    /\ calls = 0
    /\ NoMapView

NextSetters ==
    \/ SetCompositionMode(CompositionModes, FALSE)
    \/ SetBlendEquation(BlendEquations, FALSE)
    \/ SetClipRect(ClipRects, FALSE)
    \/ SetTexture(Textures \cup {Null}, FALSE)
    \/ SetAlphaWriting(BOOLEAN, FALSE)

SpecSetters == InitSetters /\ [][NextSetters]_vars

\* the resolution, with the state the viewport and the scissor depend on
InitResolution ==
    /\ g_graphics \in [canUseBlendFuncSeparate : {TRUE},
                       canUseBlendEquation : {TRUE},
                       painterIsCurrent : BOOLEAN]
    /\ \E windowSize \in Sizes : painter = Fresh(PainterOGL(windowSize))
    /\ lastOp = NoOp
    /\ calls = 0
    /\ NoMapView

NextResolution ==
    \/ SetResolution(Sizes, FALSE)
    \/ SetClipRect(ClipRects, FALSE)
    \/ SetAlphaWriting(BOOLEAN, FALSE)

SpecResolution == InitResolution /\ [][NextResolution]_vars

----------------------------------------------------------------------------
(* Claims on the memoized setters *)

MemoizedSetters ==
    {"setCompositionMode", "setBlendEquation", "setClipRect", "setTexture", "setAlphaWriting"}

\* the member a memoized setter guards
Guarded(P, op) ==
    CASE op = "setCompositionMode" -> P.m_compositionMode
      [] op = "setBlendEquation"   -> P.m_blendEquation
      [] op = "setClipRect"        -> P.m_clipRect
      [] op = "setTexture"         -> P.m_texture
      [] op = "setAlphaWriting"    -> P.m_alphaWriting

\* the OpenGL call that carries the member's value to the GPU
StateCall(op) ==
    CASE op = "setCompositionMode" -> {"glBlendFunc", "glBlendFuncSeparate"}
      [] op = "setBlendEquation"   -> {"glBlendEquation"}
      [] op = "setClipRect"        -> {"glScissor"}
      [] op = "setTexture"         -> {"glBindTexture"}
      [] op = "setAlphaWriting"    -> {"glColorMask"}

\* the calls that switch the scissor test on and off around glScissor
Switches(op) == IF op = "setClipRect" THEN {"glEnable", "glDisable"} ELSE {}

GlCount(P, names) == Cardinality({i \in 1..Len(P.gl) : P.gl[i][1] \in names})

GlIdOf(texture) == IF texture = Null THEN 0 ELSE TextureId(texture)

\* C5 as stated: a memoized setter called with the current value issues no GL
\* call and changes no member; called with another value it updates the member
\* and issues exactly one GL state call (the scissor switch not counted).
C5_AsStated ==
    [][lastOp'.op \in MemoizedSetters =>
        IF lastOp'.arg = Guarded(painter, lastOp'.op)
        THEN painter' = Fresh(painter)
        ELSE /\ Guarded(painter', lastOp'.op) = lastOp'.arg
             /\ GlCount(painter', StateCall(lastOp'.op)) = 1
             /\ GlCount(painter', StateCall(lastOp'.op) \cup Switches(lastOp'.op))
                    = Len(painter'.gl)]_vars

\* how many state calls a setter issues when it is given a new value
ExpectedCalls(P, op, arg) ==
    CASE op = "setBlendEquation" -> IF g_graphics.canUseBlendEquation THEN 1 ELSE 0
      [] op = "setTexture" ->
            IF GlIdOf(arg) # 0 /\ GlIdOf(arg) # P.m_glTextureId THEN 1 ELSE 0
      [] OTHER -> 1

\* C5 (amended): a memoized setter called with the current value issues no GL call
\* and changes no member; called with another value it updates the member and
\* issues one GL state call, except that setBlendEquation issues none when blend
\* equations are not supported and setTexture issues glBindTexture only when the
\* GL id of the new texture is not 0 and is not the id already bound.  A repeated
\* setCompositionMode(m) issues no blend-function call.
C5_MemoizedSetters ==
    [][lastOp'.op \in MemoizedSetters =>
        /\ IF lastOp'.arg = Guarded(painter, lastOp'.op)
           THEN painter' = Fresh(painter)
           ELSE /\ Guarded(painter', lastOp'.op) = lastOp'.arg
                /\ GlCount(painter', StateCall(lastOp'.op))
                       = ExpectedCalls(painter, lastOp'.op, lastOp'.arg)
                /\ GlCount(painter', StateCall(lastOp'.op) \cup Switches(lastOp'.op))
                       = Len(painter'.gl)
        /\ (lastOp'.rep /\ lastOp'.op = "setCompositionMode")
               => GlCount(painter', StateCall("setCompositionMode")) = 0]_vars

\* C5 witness: setCompositionMode(m) was called twice in a row with a mode that
\* is not the initial one; the second call issued nothing.
C5_Witness ==
    /\ lastOp.op = "setCompositionMode"
    /\ lastOp.rep
    /\ lastOp.arg # DefaultCompositionMode
    /\ painter.m_compositionMode = lastOp.arg
    /\ painter.gl = <<>>

\* C6: setResolution with the current resolution changes nothing, computes no
\* projection matrix and issues no GL call, so the second of two equal calls in
\* a row never recomputes; with another resolution (w, h) the projection matrix
\* is computed once and becomes [[2/w,0,0],[0,-2/h,0],[-1,1,1]].
C6_SetResolution ==
    [][lastOp'.op = "setResolution" =>
        LET w == lastOp'.arg[1]
            h == lastOp'.arg[2]
            m == painter'.m_projectionMatrix
        IN  /\ IF lastOp'.arg = painter.m_resolution
               THEN painter' = Fresh(painter)
               ELSE /\ painter'.m_resolution = lastOp'.arg
                    /\ painter'.projCalls = 1
                    /\ m[1][1] * w = 2 * m[1][2] /\ m[1][2] > 0
                    /\ m[5][1] * h = (-2) * m[5][2] /\ m[5][2] > 0
                    /\ <<m[2], m[3], m[4], m[6]>> = <<<<0, 1>>, <<0, 1>>, <<0, 1>>, <<0, 1>>>>
                    /\ <<m[7], m[8], m[9]>> = <<<<-1, 1>>, <<1, 1>>, <<1, 1>>>>
                    /\ GlCount(painter', {"glViewport"})
                           = (IF g_graphics.painterIsCurrent THEN 1 ELSE 0)
            /\ lastOp'.rep => (painter'.projCalls = 0 /\ painter'.gl = <<>>)]_vars

\* C6 witness: two equal setResolution calls in a row, to a resolution with
\* different width and height; the second computed nothing.
C6_Witness ==
    /\ lastOp.op = "setResolution"
    /\ lastOp.rep
    /\ lastOp.arg[1] # lastOp.arg[2]
    /\ painter.m_resolution = lastOp.arg
    /\ painter.projCalls = 0

----------------------------------------------------------------------------
(* The stack of saved states under the setters *)

InitState ==
    /\ g_graphics = [canUseBlendFuncSeparate |-> TRUE,
                     canUseBlendEquation |-> TRUE,
                     painterIsCurrent |-> TRUE]
    /\ painter = Fresh(PainterOGL(<<MaxDim, MaxDim>>))
    /\ lastOp = NoOp
    /\ calls = 0
    /\ NoMapView

\* every member is moved off its initial value by some call
NextState ==
    \/ SaveState
    \/ SaveAndResetState
    \/ RestoreSavedState({Null, "T1", Wild})
    \/ ResetState
    \/ SetColor({"red"}, TRUE)
    \/ SetOpacity({65}, TRUE)
    \/ SetCompositionMode({"Multiply"}, TRUE)
    \/ SetBlendEquation({"Max"}, TRUE)
    \/ SetClipRect({r \in ClipRects : r.valid /\ r.left = 0}, TRUE)
    \/ SetShaderProgram({"S1"}, TRUE)
    \/ SetTexture({"T1"}, TRUE)
    \/ SetAlphaWriting({TRUE}, TRUE)
    \/ SetResolution({<<1, MaxDim>>}, TRUE)
    \/ Translate({<<1, 0>>}, TRUE)

SpecState == InitState /\ [][NextState]_vars

(* The transform stack *)

NextTransform ==
    \/ PushTransformMatrix
    \/ PopTransformMatrix
    \/ TranslateBetween

SpecTransform == InitState /\ [][NextTransform]_vars

----------------------------------------------------------------------------
(* Claims on the two stacks *)

\* the members a snapshot is meant to carry
Tracked(P) ==
    [color |-> P.m_color, opacity |-> P.m_opacity,
     compositionMode |-> P.m_compositionMode, blendEquation |-> P.m_blendEquation,
     clipRect |-> P.m_clipRect, texture |-> P.m_texture,
     shaderProgram |-> P.m_shaderProgram, alphaWriting |-> P.m_alphaWriting,
     transformMatrix |-> P.m_transformMatrix, textureMatrix |-> P.m_textureMatrix,
     resolution |-> P.m_resolution, projectionMatrix |-> P.m_projectionMatrix]

\* C1 as stated: saveState changes no tracked member, and a restoreSavedState
\* that follows a saveState at once leaves every tracked member as it was and
\* the depth at what it was before the saveState.
C1_AsStated ==
    [][/\ (lastOp'.op = "saveState" /\ painter'.status = "ok")
            => Tracked(painter') = Tracked(painter)
       /\ (lastOp.op = "saveState" /\ lastOp'.op = "restoreSavedState")
            => /\ Tracked(painter') = Tracked(painter)
               /\ painter'.m_oldStateIndex = lastOp.arg]_vars

\* C2 as stated: restoreSavedState called with nothing saved is stopped by an
\* assertion, and the index never goes below 0.
C2_AsStated ==
    /\ painter.m_oldStateIndex >= 0
    /\ (lastOp.op = "restoreSavedState" /\ lastOp.arg = 0)
            => painter.status = "assert"

\* C3 as stated: the number of saved snapshots stays within 0..10, and a
\* saveState at depth 10 is stopped by the assertion with nothing modified.
C3_AsStated ==
    /\ painter.m_oldStateIndex \in 0..10
    /\ (lastOp.op = "saveState" /\ lastOp.arg = 10)
            => /\ painter.status = "assert"
               /\ painter.m_oldStateIndex = 10
               /\ Len(painter.m_olderStates) = 10

\* the half of C3 that is about saveState alone
SaveStateGuard ==
    /\ painter.m_oldStateIndex <= 10
    /\ Len(painter.m_olderStates) <= 10
    /\ (lastOp.op \in {"saveState", "saveAndResetState"} /\ lastOp.arg = 10)
            => painter.status = "assert"

\* C4 as stated: a pushTransformMatrix called with fewer than 100 matrices on
\* the stack succeeds (the first 100 pushes from an empty stack), and one
\* called with 100 on the stack is stopped by the assertion.
C4_AsStated ==
    /\ (lastOp.op = "pushTransformMatrix" /\ lastOp.arg < 100) => painter.status = "ok"
    /\ (lastOp.op = "pushTransformMatrix" /\ lastOp.arg >= 100) => painter.status = "assert"

----------------------------------------------------------------------------
(* canRenderTile over tiles around the viewport *)

\* two narrow viewports and the viewport 5/5/5/5 of the scenarios
Viewports ==
    {[left |-> 1, right |-> 2, top |-> 2, bottom |-> 1],
     [left |-> 2, right |-> 1, top |-> 1, bottom |-> 2],
     [left |-> 5, right |-> 5, top |-> 5, bottom |-> 5]}

\* the offsets around the camera, and the offset of the tile (20, 10, 7)
TileOffsets == ((-MaxOffset)..MaxOffset) \cup {10}

\* the tiles lie on the camera's floor and on the floors next to it
InitTile ==
    /\ g_graphics = Null /\ painter = Null /\ lastOp = Null /\ calls = 0
    /\ mapView = Null /\ frame = Null /\ g_map = Null
    /\ \E x \in TileOffsets, y \in TileOffsets, dz \in {-1, 0, 1},
          flags \in [hasLight : BOOLEAN, hasWideThings : BOOLEAN,
                     hasTallThings : BOOLEAN, hasDisplacement : BOOLEAN],
          viewPort \in Viewports, lightView \in LightViews, edge \in BOOLEAN :
          tileCheck =
              [mv |-> [m_drawViewportEdge |-> edge, cameraPosition |-> CameraPosition],
               tile |-> [pos |-> <<CameraPosition[1] + x, CameraPosition[2] + y,
                                   CameraPosition[3] + dz>>,
                         hasLight |-> flags.hasLight,
                         hasWideThings |-> flags.hasWideThings,
                         hasTallThings |-> flags.hasTallThings,
                         hasDisplacement |-> flags.hasDisplacement],
               viewPort |-> viewPort,
               lightView |-> lightView,
               called |-> FALSE,
               canRender |-> FALSE]

CanRenderTile ==
    /\ ~tileCheck.called
    /\ tileCheck' = [tileCheck EXCEPT
                        !.called = TRUE,
                        !.canRender = canRenderTile(tileCheck.mv, tileCheck.tile,
                                                    tileCheck.viewPort, tileCheck.lightView)]
    /\ UNCHANGED <<painter, lastOp, calls, g_graphics, mapView, frame, g_map>>

NextTile == CanRenderTile

SpecTile == InitTile /\ [][NextTile]_vars

\* the offset of the tile's check position from the camera
CheckX == LET t == tileCheck.tile.pos
          IN  (t[1] + (t[3] - CameraPosition[3])) - CameraPosition[1]
CheckY == LET t == tileCheck.tile.pos
          IN  (t[2] + (t[3] - CameraPosition[3])) - CameraPosition[2]

NoOverride ==
    /\ ~tileCheck.mv.m_drawViewportEdge
    /\ ~(~tileCheck.lightView.null /\ tileCheck.lightView.isDark /\ tileCheck.tile.hasLight)

InsideVertically == -tileCheck.viewPort.top < CheckY /\ CheckY < tileCheck.viewPort.bottom
InsideHorizontally == -tileCheck.viewPort.left < CheckX /\ CheckX < tileCheck.viewPort.right

\* C9 as stated: on the right boundary, inside the vertical range and with no
\* override, a tile is rendered exactly when it has both displacement and wide
\* things.
C9_AsStated ==
    (tileCheck.called /\ NoOverride /\ InsideVertically
        /\ CheckX = tileCheck.viewPort.right)
        => (tileCheck.canRender
                <=> (tileCheck.tile.hasDisplacement /\ tileCheck.tile.hasWideThings))

\* C9 (amended): on the right boundary, inside the vertical range and with no
\* override, a tile is rendered when it has displacement or wide things, so with
\* both and with either one of the two removed; it is not rendered when it has
\* neither.
C9_RightBoundary ==
    (tileCheck.called /\ NoOverride /\ InsideVertically
        /\ CheckX = tileCheck.viewPort.right)
        => (tileCheck.canRender
                <=> (tileCheck.tile.hasDisplacement \/ tileCheck.tile.hasWideThings))

\* C9 witness: a tile on the right boundary with wide things and no
\* displacement was checked and is rendered.
C9_Witness ==
    /\ tileCheck.called /\ NoOverride /\ InsideVertically
    /\ CheckX = tileCheck.viewPort.right
    /\ tileCheck.tile.hasWideThings /\ ~tileCheck.tile.hasDisplacement
    /\ tileCheck.canRender

AtOrBeyondLeft == -CheckX >= tileCheck.viewPort.left
AtOrBeyondTop == -CheckY >= tileCheck.viewPort.top
Exempt ==
    \/ tileCheck.tile.hasWideThings
    \/ tileCheck.tile.hasTallThings
    \/ tileCheck.tile.hasDisplacement

\* C10 as stated: with no override, a tile at or beyond the left or the top
\* boundary is culled when it has no wide things, tall things or displacement,
\* and a tile with one of them is not culled for lying there (it is rendered
\* when the other axis has it inside the viewport).
C10_AsStated ==
    (tileCheck.called /\ NoOverride) =>
        /\ ((AtOrBeyondLeft \/ AtOrBeyondTop) /\ ~Exempt) => ~tileCheck.canRender
        /\ (AtOrBeyondLeft /\ InsideVertically /\ Exempt) => tileCheck.canRender
        /\ (AtOrBeyondTop /\ InsideHorizontally /\ Exempt) => tileCheck.canRender

\* C10 (amended): with no override, a tile at or beyond the left or the top
\* boundary is culled whatever its flags: wide things, tall things and
\* displacement give no exemption from the left/top culling.
C10_LeftTop ==
    (tileCheck.called /\ NoOverride /\ (AtOrBeyondLeft \/ AtOrBeyondTop))
        => ~tileCheck.canRender

\* C10 witness: a tile with wide things on the left boundary, inside the
\* vertical range, was checked and is culled.
C10_Witness ==
    /\ tileCheck.called /\ NoOverride
    /\ -CheckX = tileCheck.viewPort.left /\ InsideVertically
    /\ tileCheck.tile.hasWideThings
    /\ ~tileCheck.canRender

BeyondRight == CheckX > tileCheck.viewPort.right
BeyondBottom == CheckY > tileCheck.viewPort.bottom

\* C11: with no override, a tile strictly beyond the right boundary is rendered
\* only if it has both wide things and displacement, and a tile strictly beyond
\* the bottom boundary is not rendered, whatever its flags.
C11_BeyondRightBottom ==
    (tileCheck.called /\ NoOverride) =>
        /\ (BeyondRight /\ tileCheck.canRender)
               => (tileCheck.tile.hasWideThings /\ tileCheck.tile.hasDisplacement)
        /\ BeyondBottom => ~tileCheck.canRender

\* C11 witness: the tile (20, 10, 7) without wide things, with the camera at
\* (10, 10, 7) and the viewport 5/5/5/5, was checked and is not rendered.
C11_Witness ==
    /\ tileCheck.called /\ NoOverride
    /\ tileCheck.tile.pos = <<20, 10, 7>>
    /\ tileCheck.mv.cameraPosition = <<10, 10, 7>>
    /\ tileCheck.viewPort = [left |-> 5, right |-> 5, top |-> 5, bottom |-> 5]
    /\ ~tileCheck.tile.hasWideThings /\ tileCheck.tile.hasDisplacement
    /\ ~tileCheck.canRender

Override ==
    \/ tileCheck.mv.m_drawViewportEdge
    \/ (~tileCheck.lightView.null /\ tileCheck.lightView.isDark /\ tileCheck.tile.hasLight)

\* C12: a tile is rendered, whatever its position and flags, when the view
\* shows the viewport edges, or when a light view is passed, it is dark and the
\* tile has a light.
C12_Overrides == (tileCheck.called /\ Override) => tileCheck.canRender

\* C12 witness: a tile with a light and no other flag, far beyond the right and
\* the bottom boundary, was checked in the dark with the viewport edges not
\* shown, and is rendered.
C12_Witness ==
    /\ tileCheck.called
    /\ ~tileCheck.mv.m_drawViewportEdge
    /\ ~tileCheck.lightView.null /\ tileCheck.lightView.isDark /\ tileCheck.tile.hasLight
    /\ ~Exempt
    /\ CheckX > 2 * tileCheck.viewPort.right /\ CheckY > 2 * tileCheck.viewPort.bottom
    /\ tileCheck.canRender

\* C13: a tile whose check position is strictly inside the viewport is
\* rendered, on every floor and with every combination of the flags.
C13_InsideRendered ==
    (tileCheck.called /\ InsideHorizontally /\ InsideVertically) => tileCheck.canRender

\* C13 witness: the tile (10, 10, 7) with no flag and no override, with the
\* camera at (10, 10, 7) and the viewport 5/5/5/5, was checked and is rendered.
C13_Witness ==
    /\ tileCheck.called /\ NoOverride /\ ~Exempt
    /\ tileCheck.tile.pos = <<10, 10, 7>>
    /\ tileCheck.mv.cameraPosition = <<10, 10, 7>>
    /\ tileCheck.viewPort = [left |-> 5, right |-> 5, top |-> 5, bottom |-> 5]
    /\ tileCheck.canRender

----------------------------------------------------------------------------
(* The map and the map view *)

Floors == 0..MaxFloor

TileSize == 32

Viewport == [left |-> 2, right |-> 2, top |-> 2, bottom |-> 2]

NoGround == [present |-> FALSE, translucent |-> FALSE, topGround |-> FALSE]
PlainGround == [present |-> TRUE, translucent |-> FALSE, topGround |-> FALSE]
TopGround == [present |-> TRUE, translucent |-> FALSE, topGround |-> TRUE]
TranslucentGround == [present |-> TRUE, translucent |-> TRUE, topGround |-> FALSE]

\* Tile::hasGround, Tile::isTopGround
hasGround(tile) == tile.ground.present
isTopGround(tile) == tile.ground.present /\ tile.ground.topGround

\* the position on floor z whose check position is (x, y) away from the camera
FloorPosition(z, x, y) ==
    <<CameraPosition[1] + x - (z - CameraPosition[3]),
      CameraPosition[2] + y - (z - CameraPosition[3]), z>>

Tile(pos, ground, light, wide) ==
    [pos |-> pos, ground |-> ground, hasLight |-> light, hasWideThings |-> wide,
     hasTallThings |-> FALSE, hasDisplacement |-> FALSE]

\* Every floor has a tile under the camera's column, that tile's east neighbour
\* and a tile on the right boundary of the viewport; the grounds change from
\* floor to floor, the boundary tile has wide things on even floors and a light
\* on odd floors.
FloorTiles(z) ==
    <<Tile(FloorPosition(z, 0, 0),
           <<PlainGround, TopGround, TranslucentGround, NoGround>>[(z % 4) + 1], FALSE, FALSE),
      Tile(FloorPosition(z, 1, 0),
           <<PlainGround, TopGround, NoGround>>[(z % 3) + 1], FALSE, FALSE),
      Tile(FloorPosition(z, Viewport.right, 0), PlainGround, z % 2 = 1, z % 2 = 0)>>

FloorMissiles(z) ==
    IF z % 2 = 1 THEN <<[id |-> z, pos |-> FloorPosition(z, 1, 1)]>> ELSE <<>>

StaticTexts ==
    <<[pos |-> CameraPosition, mode |-> "MESSAGE_NONE"],
      [pos |-> FloorPosition(CameraPosition[3] - 1, 1, 0), mode |-> "MESSAGE_NONE"],
      [pos |-> FloorPosition(CameraPosition[3] - 1, 0, 1), mode |-> "MESSAGE_SAY"]>>

AnimatedTexts ==
    <<[pos |-> translated(CameraPosition, 1, 1)],
      [pos |-> FloorPosition(CameraPosition[3] - 1, 1, 1)]>>

World(texts) ==
    [tiles |-> [z \in Floors |-> FloorTiles(z)],
     missiles |-> [z \in Floors |-> FloorMissiles(z)],
     staticTexts |-> IF texts THEN StaticTexts ELSE <<>>,
     animatedTexts |-> IF texts THEN AnimatedTexts ELSE <<>>]

\* Map::getTile: the tile at pos as a sequence of one, the empty sequence for a
\* null TilePtr
getTile(map, pos) ==
    IF pos[3] \in DOMAIN map.tiles
    THEN LET at == SelectSeq(map.tiles[pos[3]], LAMBDA t : t.pos = pos)
         IN  IF at = <<>> THEN <<>> ELSE <<at[1]>>
    ELSE <<>>

\* MapView::transformPositionTo2D
transformPositionTo2D(position, relativePosition) ==
    <<(position[1] - relativePosition[1] - (relativePosition[3] - position[3])) * TileSize,
      (position[2] - relativePosition[2] - (relativePosition[3] - position[3])) * TileSize>>

\* MapView::updateVisibleTilesCache
updateVisibleTilesCache(mv, map) ==
    [mv EXCEPT !.m_mustUpdateVisibleTilesCache = FALSE,
               !.m_cachedVisibleTiles = [z \in DOMAIN @ |-> map.tiles[z]]]

\* MapView::calcFramebufferSource
calcFramebufferSource(mv, size) ==
    [x |-> TileSize, y |-> TileSize,
     width |-> (mv.m_viewport.left + mv.m_viewport.right + 1) * TileSize,
     height |-> (mv.m_viewport.top + mv.m_viewport.bottom + 1) * TileSize]

NoRect == [x |-> 0, y |-> 0, width |-> 0, height |-> 0]
Rects ==
    {[x |-> 0, y |-> 0, width |-> 160, height |-> 160],
     [x |-> 10, y |-> 20, width |-> 320, height |-> 160]}

\* the conversion of a float to an int
Trunc(n, d) == IF n >= 0 THEN n \div d ELSE -((-n) \div d)

----------------------------------------------------------------------------
(* MapViewPainter::draw, a step at a time; frame.log lists the calls made on
   the collaborators in the frame so far *)

\* a call e made for floor z on the thing at pos with the arguments p
Ev(e, z, pos, p) == [e |-> e, z |-> z, pos |-> pos, p |-> p]

\* the calls of the passes of a loop, one after the other
Flatten(passes) ==
    LET cat[i \in 0..Len(passes)] == IF i = 0 THEN <<>> ELSE cat[i - 1] \o passes[i]
    IN  cat[Len(passes)]

\* Position::translatedToDirections({South, East})
SouthEast(pos) == <<translated(pos, 0, 1), translated(pos, 1, 0)>>

shadeTileShiftOnSeam(map, tile, cameraPosition) ==
    LET ground == tile.ground
        pos2D == transformPositionTo2D(tile.pos, cameraPosition)
        seam == \E i \in 1..2 :
                    LET nextDownTile == getTile(map, SouthEast(tile.pos)[i])
                    IN  /\ nextDownTile # <<>>
                        /\ hasGround(nextDownTile[1])
                        /\ ~isTopGround(nextDownTile[1])
    IN  IF ground.present /\ ~ground.translucent
        THEN <<Ev("setShade", tile.pos[3], tile.pos, pos2D)>>
             \o (IF ground.topGround /\ seam
                 THEN <<Ev("setShade", tile.pos[3], tile.pos,
                           <<pos2D[1] - TileSize, pos2D[2] - TileSize>>)>>
                 ELSE <<>>)
        ELSE <<>>

\* the shading of one tile of the next floor
shadeTile(map, tile, cameraPosition) ==
    LET ground == tile.ground
        pos2D == transformPositionTo2D(tile.pos, cameraPosition)
        seam == \E i \in 1..2 :
                    LET nextDownTile == getTile(map, SouthEast(tile.pos)[i])
                    IN  /\ nextDownTile # <<>>
                        /\ hasGround(nextDownTile[1])
                        /\ ~isTopGround(nextDownTile[1])
    IN  IF ground.present /\ ~ground.translucent
        THEN IF ground.topGround
             THEN (IF seam THEN <<Ev("setShade", tile.pos[3], tile.pos, pos2D)>> ELSE <<>>)
                  \o <<Ev("setShade", tile.pos[3], tile.pos,
                          <<pos2D[1] - TileSize, pos2D[2] - TileSize>>)>>
             ELSE <<Ev("setShade", tile.pos[3], tile.pos, pos2D)>>
        ELSE <<>>

shadeNextFloor(mv, map, lightView, z) ==
    LET nextFloor == Int8(z - 1)
    IN  IF ~lightView.null /\ nextFloor >= mv.m_floorMin
        THEN <<Ev("setFloor", nextFloor, <<>>, <<>>)>>
             \o Flatten([i \in 1..Len(mv.m_cachedVisibleTiles[nextFloor]) |->
                        LET tile == mv.m_cachedVisibleTiles[nextFloor][i]
                        IN shadeTile(map, tile, mv.cameraPosition)])
        ELSE <<>>

groundPass(mv, lightView, z) ==
    Flatten([i \in 1..Len(mv.m_cachedVisibleTiles[z]) |->
            LET tile == mv.m_cachedVisibleTiles[z][i]
            IN IF ~canRenderTile(mv, tile, mv.m_viewport, lightView) THEN <<>>
                ELSE LET pos2D == transformPositionTo2D(tile.pos, mv.cameraPosition)
                     IN  <<Ev("drawStart", z, tile.pos, <<>>),
                           Ev("drawGround", z, tile.pos, pos2D),
                           Ev("drawEnd", z, tile.pos, <<>>)>>])

itemPassEveryTile(mv, lightView, z) ==
    Flatten([i \in 1..Len(mv.m_cachedVisibleTiles[z]) |->
            LET tile == mv.m_cachedVisibleTiles[z][i]
                pos2D == transformPositionTo2D(tile.pos, mv.cameraPosition)
            IN  <<Ev("drawStart", z, tile.pos, <<>>),
                  Ev("drawBottom", z, tile.pos, pos2D),
                  Ev("drawTop", z, tile.pos, pos2D),
                  Ev("drawEnd", z, tile.pos, <<>>)>>])

itemPass(mv, lightView, z) ==
    Flatten([i \in 1..Len(mv.m_cachedVisibleTiles[z]) |->
            LET tile == mv.m_cachedVisibleTiles[z][i]
            IN IF ~canRenderTile(mv, tile, mv.m_viewport, lightView) THEN <<>>
                ELSE LET pos2D == transformPositionTo2D(tile.pos, mv.cameraPosition)
                     IN  <<Ev("drawStart", z, tile.pos, <<>>),
                           Ev("drawBottom", z, tile.pos, pos2D),
                           Ev("drawTop", z, tile.pos, pos2D),
                           Ev("drawEnd", z, tile.pos, <<>>)>>])

missilePass(mv, map, z) ==
    Flatten([i \in 1..Len(map.missiles[z]) |->
            LET missile == map.missiles[z][i]
            IN <<Ev("drawMissile", z, missile.pos,
                     transformPositionTo2D(missile.pos, mv.cameraPosition))>>])

drawFloorItemsFirst(mv, map, lightView, z) ==
    shadeNextFloor(mv, map, lightView, z)
    \o <<Ev("onFloorDrawingStart", z, <<>>, <<>>)>>
    \o (IF ~lightView.null THEN <<Ev("setFloor", z, <<>>, <<>>)>> ELSE <<>>)
    \o itemPass(mv, lightView, z)
    \o groundPass(mv, lightView, z)
    \o missilePass(mv, map, z)
    \o <<Ev("onFloorDrawingEnd", z, <<>>, <<>>)>>

\* the body of the floor loop
drawFloor(mv, map, lightView, z) ==
    shadeNextFloor(mv, map, lightView, z)
    \o <<Ev("onFloorDrawingStart", z, <<>>, <<>>)>>
    \o (IF ~lightView.null THEN <<Ev("setFloor", z, <<>>, <<>>)>> ELSE <<>>)
    \o groundPass(mv, lightView, z)
    \o itemPass(mv, lightView, z)
    \o missilePass(mv, map, z)
    \o <<Ev("onFloorDrawingEnd", z, <<>>, <<>>)>>

floorLoopSkipsLast(mv, z) == z > mv.m_floorMin

\* the condition of the floor loop
floorLoop(mv, z) == z >= mv.m_floorMin

drawCrosshairKeepsOpacity(mv, P) ==
    IF mv.m_crosshairTexture /\ mv.m_mousePositionValid
    THEN LET point == transformPositionTo2D(mv.m_mousePosition, mv.cameraPosition)
             effect == ~mv.m_crosshairEffect.null /\ mv.m_crosshairEffect.id > 0
         IN  [log |-> (IF effect
                       THEN <<Ev("drawEffect", -1, mv.m_mousePosition, point),
                              Ev("setOpacity", -1, <<>>, <<65>>)>>
                       ELSE <<>>)
                      \o <<Ev("addTexturedRect", -1, mv.m_mousePosition,
                              <<point[1], point[2], TileSize, TileSize>>)>>,
              painter |-> IF effect THEN setOpacity(P, 65) ELSE P]
    ELSE [log |-> <<>>, painter |-> P]

\* the crosshair, with the painter it leaves
drawCrosshair(mv, P) ==
    IF mv.m_crosshairTexture /\ mv.m_mousePositionValid
    THEN LET point == transformPositionTo2D(mv.m_mousePosition, mv.cameraPosition)
             effect == ~mv.m_crosshairEffect.null /\ mv.m_crosshairEffect.id > 0
         IN  [log |-> (IF effect
                       THEN <<Ev("drawEffect", -1, mv.m_mousePosition, point),
                              Ev("setOpacity", -1, <<>>, <<65>>)>>
                       ELSE <<>>)
                      \o <<Ev("addTexturedRect", -1, mv.m_mousePosition,
                              <<point[1], point[2], TileSize, TileSize>>),
                           Ev("resetOpacity", -1, <<>>, <<>>)>>,
              painter |-> setOpacity(IF effect THEN setOpacity(P, 65) ELSE P, DefaultOpacity)]
    ELSE [log |-> <<>>, painter |-> P]

\* a point on the destination rect
toScreen(mv, pos) ==
    LET c == mv.m_rectCache
        p == transformPositionTo2D(pos, mv.cameraPosition)
    IN  <<Trunc((p[1] - c.drawOffset[1]) * c.horizontalStretchFactor[1],
                c.horizontalStretchFactor[2]) + c.rect.x,
          Trunc((p[2] - c.drawOffset[2]) * c.verticalStretchFactor[1],
                c.verticalStretchFactor[2]) + c.rect.y>>

creatureInformation(mv) ==
    Flatten([i \in 1..Len(mv.m_visibleCreatures) |->
            LET creature == mv.m_visibleCreatures[i]
            IN <<Ev("drawInformation", -1, creature.pos,
                     <<transformPositionTo2D(creature.pos, mv.cameraPosition),
                       {f \in {"DrawNames", "DrawBars", "DrawManaBar"} :
                           \/ f = "DrawNames" /\ mv.m_drawNames
                           \/ f = "DrawBars" /\ mv.m_drawHealthBars
                           \/ f = "DrawManaBar" /\ mv.m_drawManaBar}>>)>>])

staticTexts(mv, map) ==
    Flatten([i \in 1..Len(map.staticTexts) |->
            LET staticText == map.staticTexts[i]
            IN IF staticText.pos[3] # mv.cameraPosition[3] /\ staticText.mode = "MESSAGE_NONE"
                THEN <<>>
                ELSE <<Ev("drawStaticText", -1, staticText.pos, toScreen(mv, staticText.pos))>>])

animatedTexts(mv, map) ==
    Flatten([i \in 1..Len(map.animatedTexts) |->
            LET animatedText == map.animatedTexts[i]
            IN IF animatedText.pos[3] # mv.cameraPosition[3]
                THEN <<>>
                ELSE <<Ev("drawAnimatedText", -1, animatedText.pos,
                          toScreen(mv, animatedText.pos))>>])

DrawUp(type, rebuild) == Ev("drawUp", -1, <<>>, <<type, rebuild>>)

Log(events) == [frame EXCEPT !.log = @ \o events]

rectCacheKeepsRect(mv, rect) ==
    LET srcRect == calcFramebufferSource(mv, <<rect.width, rect.height>>)
    IN  [rect |-> mv.m_rectCache.rect,
         srcRect |-> srcRect,
         drawOffset |-> <<srcRect.x, srcRect.y>>,
         horizontalStretchFactor |-> <<rect.width, srcRect.width>>,
         verticalStretchFactor |-> <<rect.height, srcRect.height>>]

rectCache(mv, rect) ==
    LET srcRect == calcFramebufferSource(mv, <<rect.width, rect.height>>)
    IN  [rect |-> rect,
         srcRect |-> srcRect,
         drawOffset |-> <<srcRect.x, srcRect.y>>,
         horizontalStretchFactor |-> <<rect.width, srcRect.width>>,
         verticalStretchFactor |-> <<rect.height, srcRect.height>>]

\* draw, up to the map layer: the visible tiles and the rect cache
Draw ==
    /\ frame.pc = "idle"
    /\ \E rect \in Rects :
        LET dirty == mapView.m_mustUpdateVisibleTilesCache
            mv == IF dirty THEN updateVisibleTilesCache(mapView, g_map) ELSE mapView
            changed == mv.m_rectCache.rect # rect
        IN  /\ mapView' = IF changed THEN [mv EXCEPT !.m_rectCache = rectCache(mv, rect)]
                          ELSE mv
            /\ frame' = [pc |-> "map", z |-> 0, rect |-> rect, lightView |-> NoLightView,
                         log |-> (IF dirty
                                  THEN <<Ev("updateVisibleTilesCache", -1, <<>>, <<>>)>>
                                  ELSE <<>>)
                                 \o (IF changed
                                     THEN <<Ev("calcFramebufferSource", -1, <<>>,
                                               <<rect.width, rect.height>>)>>
                                     ELSE <<>>)]
    /\ UNCHANGED <<painter, lastOp, calls, g_graphics, tileCheck, g_map>>

\* the batcher is asked about the map layer
DrawMap ==
    /\ frame.pc = "map"
    /\ \E rebuild \in BOOLEAN :
        frame' = [Log(<<DrawUp("DRAWTYPE_MAP", rebuild)>>) EXCEPT
                     !.pc = IF rebuild THEN "floor" ELSE "light",
                     !.z = mapView.m_floorMax,
                     !.lightView = IF mapView.m_drawLights THEN mapView.m_lightView
                                   ELSE NoLightView]
    /\ UNCHANGED <<painter, lastOp, calls, g_graphics, mapView, tileCheck, g_map>>

\* one pass of the floor loop
DrawFloor ==
    /\ frame.pc = "floor"
    /\ floorLoop(mapView, frame.z)
    /\ frame' = [Log(drawFloor(mapView, g_map, frame.lightView, frame.z)) EXCEPT
                    !.z = Int8(frame.z - 1)]
    /\ UNCHANGED <<painter, lastOp, calls, g_graphics, mapView, tileCheck, g_map>>

\* the floor loop ends, the crosshair follows
DrawCrosshair ==
    /\ frame.pc = "floor"
    /\ ~floorLoop(mapView, frame.z)
    /\ LET crosshair == drawCrosshair(mapView, painter)
       IN  /\ frame' = [Log(crosshair.log) EXCEPT !.pc = "light"]
           /\ painter' = crosshair.painter
    /\ UNCHANGED <<lastOp, calls, g_graphics, mapView, tileCheck, g_map>>

DrawLightUnasked ==
    /\ frame.pc = "light"
    /\ \E rebuild \in BOOLEAN :
        frame' = [Log(IF mapView.m_drawLights
                      THEN <<DrawUp("DRAWTYPE_LIGHT", rebuild),
                             Ev("LightViewPainter::draw", -1, <<>>, <<mapView.m_lightView>>)>>
                      ELSE <<>>) EXCEPT !.pc = "information"]
    /\ UNCHANGED <<painter, lastOp, calls, g_graphics, mapView, tileCheck, g_map>>

\* the light layer
DrawLight ==
    /\ frame.pc = "light"
    /\ \E rebuild \in BOOLEAN :
        frame' = [Log(IF mapView.m_drawLights
                      THEN <<DrawUp("DRAWTYPE_LIGHT", rebuild)>>
                           \o (IF rebuild
                               THEN <<Ev("LightViewPainter::draw", -1, <<>>,
                                         <<mapView.m_lightView>>)>>
                               ELSE <<>>)
                      ELSE <<>>) EXCEPT !.pc = "information"]
    /\ UNCHANGED <<painter, lastOp, calls, g_graphics, mapView, tileCheck, g_map>>

DrawCreatureInformation ==
    /\ frame.pc = "information"
    /\ \E rebuild \in BOOLEAN :
        frame' = [Log(IF ~mapView.m_drawNames /\ ~mapView.m_drawHealthBars
                         /\ ~mapView.m_drawManaBar
                      THEN <<>>
                      ELSE <<DrawUp("DRAWTYPE_CREATURE_INFORMATION", rebuild)>>
                           \o (IF rebuild THEN creatureInformation(mapView) ELSE <<>>))
                  EXCEPT !.pc = "text"]
    /\ UNCHANGED <<painter, lastOp, calls, g_graphics, mapView, tileCheck, g_map>>

DrawText ==
    /\ frame.pc = "text"
    /\ \E static \in BOOLEAN, dynamic \in BOOLEAN :
        frame' = [Log(IF ~mapView.m_drawTexts
                      THEN <<>>
                      ELSE (IF g_map.staticTexts # <<>>
                            THEN <<DrawUp("DRAWTYPE_STATIC_TEXT", static)>>
                                 \o (IF static THEN staticTexts(mapView, g_map) ELSE <<>>)
                            ELSE <<>>)
                           \o (IF g_map.animatedTexts # <<>>
                               THEN <<DrawUp("DRAWTYPE_DYNAMIC_TEXT", dynamic)>>
                                    \o (IF dynamic THEN animatedTexts(mapView, g_map)
                                        ELSE <<>>)
                               ELSE <<>>))
                  EXCEPT !.pc = "idle"]
    /\ UNCHANGED <<painter, lastOp, calls, g_graphics, mapView, tileCheck, g_map>>

\* between two frames the camera moves or the map changes
RequestVisibleTilesCacheUpdate ==
    /\ frame.pc = "idle"
    /\ ~mapView.m_mustUpdateVisibleTilesCache
    /\ mapView' = [mapView EXCEPT !.m_mustUpdateVisibleTilesCache = TRUE]
    /\ UNCHANGED <<painter, lastOp, calls, g_graphics, frame, tileCheck, g_map>>

LitLightView == [null |-> FALSE, isDark |-> FALSE]
DarkLightView == [null |-> FALSE, isDark |-> TRUE]

LightSettings ==
    {[m_drawLights |-> FALSE, m_lightView |-> LitLightView],
     [m_drawLights |-> TRUE, m_lightView |-> NoLightView],
     [m_drawLights |-> TRUE, m_lightView |-> LitLightView],
     [m_drawLights |-> TRUE, m_lightView |-> DarkLightView]}

NoEffect == [null |-> TRUE, id |-> 0]

Overlays ==
    {[m_crosshairTexture |-> FALSE, m_mousePositionValid |-> FALSE, m_crosshairEffect |-> NoEffect,
      m_drawNames |-> FALSE, m_drawHealthBars |-> FALSE, m_drawManaBar |-> FALSE,
      m_drawTexts |-> FALSE],
     [m_crosshairTexture |-> TRUE, m_mousePositionValid |-> TRUE,
      m_crosshairEffect |-> [null |-> FALSE, id |-> 1],
      m_drawNames |-> TRUE, m_drawHealthBars |-> TRUE, m_drawManaBar |-> TRUE,
      m_drawTexts |-> TRUE],
     [m_crosshairTexture |-> TRUE, m_mousePositionValid |-> TRUE, m_crosshairEffect |-> NoEffect,
      m_drawNames |-> FALSE, m_drawHealthBars |-> TRUE, m_drawManaBar |-> FALSE,
      m_drawTexts |-> TRUE],
     [m_crosshairTexture |-> TRUE, m_mousePositionValid |-> FALSE,
      m_crosshairEffect |-> [null |-> FALSE, id |-> 0],
      m_drawNames |-> TRUE, m_drawHealthBars |-> FALSE, m_drawManaBar |-> FALSE,
      m_drawTexts |-> FALSE]}

InitMapViewAt(cameraPosition, floorPairs) ==
    /\ g_graphics = [canUseBlendFuncSeparate |-> TRUE,
                     canUseBlendEquation |-> TRUE,
                     painterIsCurrent |-> TRUE]
    /\ painter = PainterOGL(<<MaxDim, MaxDim>>)
    /\ lastOp = NoOp
    /\ calls = 0
    /\ tileCheck = Null
    /\ \E texts \in BOOLEAN : g_map = World(texts)
    /\ frame = [pc |-> "idle", z |-> 0, rect |-> NoRect, lightView |-> NoLightView,
                log |-> <<>>]
    /\ \E floorMin \in Floors, floorMax \in Floors, lights \in LightSettings,
          overlay \in Overlays :
        /\ <<floorMin, floorMax>> \in floorPairs
        /\ mapView =
            [m_mustUpdateVisibleTilesCache |-> TRUE,
             m_cachedVisibleTiles |-> [z \in Floors |-> <<>>],
             m_rectCache |-> [rect |-> NoRect, srcRect |-> NoRect, drawOffset |-> <<0, 0>>,
                              horizontalStretchFactor |-> <<1, 1>>,
                              verticalStretchFactor |-> <<1, 1>>],
             m_floorMin |-> floorMin,
             m_floorMax |-> floorMax,
             m_drawLights |-> lights.m_drawLights,
             m_lightView |-> lights.m_lightView,
             m_drawViewportEdge |-> FALSE,
             cameraPosition |-> cameraPosition,
             m_viewport |-> Viewport,
             m_mousePosition |-> translated(CameraPosition, 1, 1),
             m_visibleCreatures |-> <<[pos |-> CameraPosition]>>,
             m_crosshairTexture |-> overlay.m_crosshairTexture,
             m_mousePositionValid |-> overlay.m_mousePositionValid,
             m_crosshairEffect |-> overlay.m_crosshairEffect,
             m_drawNames |-> overlay.m_drawNames,
             m_drawHealthBars |-> overlay.m_drawHealthBars,
             m_drawManaBar |-> overlay.m_drawManaBar,
             m_drawTexts |-> overlay.m_drawTexts]

InitMapView ==
    InitMapViewAt(CameraPosition, {p \in Floors \X Floors : p[1] <= p[2]})

NextMapView ==
    \/ Draw
    \/ DrawMap
    \/ DrawFloor
    \/ DrawCrosshair
    \/ DrawLight
    \/ DrawCreatureInformation
    \/ DrawText
    \/ RequestVisibleTilesCacheUpdate

SpecMapView == InitMapView /\ [][NextMapView]_vars

\* Position(): the position of a camera that is not known yet
InvalidPosition == <<65535, 65535, 255>>

\* Position::isValid
isValid(pos) == ~(pos[1] = 65535 /\ pos[2] = 65535 /\ pos[3] = 255)

\* frames drawn while the camera position is not known
InitNoCamera == InitMapViewAt(InvalidPosition, {<<0, 0>>, <<0, 1>>})

SpecNoCamera == InitNoCamera /\ [][NextMapView]_vars

----------------------------------------------------------------------------
(* Claims on the floor loop *)

Calls(log, e) == SelectSeq(log, LAMBDA c : c.e = e)

MapDrawn == \E i \in 1..Len(frame.log) : frame.log[i] = DrawUp("DRAWTYPE_MAP", TRUE)

\* the floors of the calls of hook e come down from m_floorMax one by one
Descending(e) ==
    LET hooks == Calls(frame.log, e)
    IN  /\ \A i \in 1..Len(hooks) : hooks[i].z = mapView.m_floorMax - (i - 1)
        /\ frame.pc = "floor" => Len(hooks) = mapView.m_floorMax - frame.z
        /\ (frame.pc \notin {"map", "floor"} /\ MapDrawn)
               => Len(hooks) = mapView.m_floorMax - mapView.m_floorMin + 1
        /\ ~MapDrawn => hooks = <<>>

\* C7: in a frame that draws the map layer the start-of-floor and the
\* end-of-floor hooks are each called once per floor, for the floors m_floorMax,
\* m_floorMax - 1, ..., m_floorMin in this order, and the floor loop ends after
\* m_floorMin.
C7_FloorsDescend ==
    frame.pc # "idle" \/ frame.log # <<>>
        => Descending("onFloorDrawingStart") /\ Descending("onFloorDrawingEnd")

\* C7 witness: a finished frame with m_floorMin = 0 and m_floorMax = 7 has
\* visited the floors 7, 6, ..., 0.
C7_Witness ==
    /\ frame.pc = "idle" /\ MapDrawn
    /\ mapView.m_floorMin = 0 /\ mapView.m_floorMax = 7
    /\ LET hooks == Calls(frame.log, "onFloorDrawingStart")
       IN  [i \in 1..Len(hooks) |-> hooks[i].z] = <<7, 6, 5, 4, 3, 2, 1, 0>>

\* the calls a step adds to the log
Added == IF frame'.pc = "idle" /\ frame.pc = "idle" THEN <<>>
         ELSE IF frame.pc = "idle" THEN frame'.log
         ELSE SubSeq(frame'.log, Len(frame.log) + 1, Len(frame'.log))

FloorCalls ==
    {"setFloor", "setShade", "onFloorDrawingStart", "drawStart", "drawGround", "drawEnd",
     "drawBottom", "drawTop", "drawMissile", "onFloorDrawingEnd"}

\* the place of a call in the pass of the loop for floor z; drawStart and
\* drawEnd take the place of the draw they enclose
Place(c, z) ==
    CASE c.e = "setFloor" /\ c.z # z -> 0
      [] c.e = "setShade" -> 1
      [] c.e = "onFloorDrawingStart" -> 2
      [] c.e = "setFloor" /\ c.z = z -> 3
      [] c.e = "drawGround" -> 4
      [] c.e \in {"drawBottom", "drawTop"} -> 5
      [] c.e = "drawMissile" -> 6
      [] c.e = "onFloorDrawingEnd" -> 7
      [] OTHER -> -1

OrderedPass(seg, z, lit) ==
    LET core == SelectSeq(seg, LAMBDA c : c.e \notin {"drawStart", "drawEnd"})
        tilesOf(e) == [i \in 1..Len(Calls(seg, e)) |-> Calls(seg, e)[i].pos]
    IN  /\ \A i \in 1..Len(seg) : seg[i].e \in FloorCalls
        /\ \A i \in 1..Len(core) : \A j \in i..Len(core) :
               Place(core[i], z) <= Place(core[j], z)
        /\ \A i \in 1..Len(core) :
               core[i].z = IF Place(core[i], z) <= 1 THEN z - 1 ELSE z
        /\ Len(Calls(core, "onFloorDrawingStart")) = 1
        /\ Len(Calls(core, "onFloorDrawingEnd")) = 1
        /\ seg[Len(seg)].e = "onFloorDrawingEnd"
        /\ Len(Calls(core, "setFloor")) =
               IF ~lit THEN 0 ELSE IF z - 1 >= mapView.m_floorMin THEN 2 ELSE 1
        /\ (lit /\ z - 1 >= mapView.m_floorMin) => seg[1] = Ev("setFloor", z - 1, <<>>, <<>>)
        /\ ~(lit /\ z - 1 >= mapView.m_floorMin) => Calls(core, "setShade") = <<>>
        /\ \A i \in 1..Len(seg) :
               /\ seg[i].e = "drawGround"
                      => /\ seg[i - 1].e = "drawStart" /\ seg[i - 1].pos = seg[i].pos
                         /\ seg[i + 1].e = "drawEnd" /\ seg[i + 1].pos = seg[i].pos
               /\ seg[i].e = "drawBottom"
                      => /\ seg[i - 1].e = "drawStart" /\ seg[i - 1].pos = seg[i].pos
                         /\ seg[i + 1].e = "drawTop" /\ seg[i + 1].pos = seg[i].pos
                         /\ seg[i + 2].e = "drawEnd" /\ seg[i + 2].pos = seg[i].pos
        /\ tilesOf("drawGround") = tilesOf("drawBottom")
        /\ tilesOf("drawGround") = tilesOf("drawTop")
        /\ Len(Calls(seg, "drawStart")) = 2 * Len(Calls(seg, "drawGround"))
        /\ Len(Calls(seg, "drawEnd")) = 2 * Len(Calls(seg, "drawGround"))
        /\ Len(Calls(seg, "drawMissile")) = Len(g_map.missiles[z])

\* C8: the pass of the floor loop for floor z makes its calls in this order:
\* with a light view in use and z - 1 >= m_floorMin, setFloor(z - 1) and the
\* shades of floor z - 1; the start-of-floor hook for z; with a light view in
\* use, setFloor(z); the ground of every rendered tile of floor z; bottom and
\* then top of every rendered tile of floor z; the missiles of floor z; the
\* end-of-floor hook for z. No other step of the frame makes any of these calls.
C8_FloorPassOrder ==
    [][IF frame.pc = "floor" /\ frame'.pc = "floor"
       THEN OrderedPass(Added, frame.z, ~frame.lightView.null)
       ELSE \A i \in 1..Len(Added) : Added[i].e \notin FloorCalls]_vars

\* C8 witness: with a light view in use, a pass for a floor z was made that
\* shaded floor z - 1 and drew grounds, items and a missile.
C8_Witness ==
    /\ frame.pc = "light"
    /\ ~frame.lightView.null
    /\ \E z \in Floors :
        /\ \E i \in 1..Len(frame.log) : frame.log[i].e = "setShade" /\ frame.log[i].z = z - 1
        /\ \A e \in {"setFloor", "drawGround", "drawBottom", "drawTop", "drawMissile"} :
               \E i \in 1..Len(frame.log) : frame.log[i].e = e /\ frame.log[i].z = z

----------------------------------------------------------------------------
(* Claims on the frame *)

DrawCalls ==
    FloorCalls \cup {"drawEffect", "addTexturedRect", "LightViewPainter::draw",
                     "drawInformation", "drawStaticText", "drawAnimatedText"}

\* C14 as stated: in a frame drawn with an invalid camera position no floor is
\* visited and no tile, missile, crosshair, light or overlay draw is made.
C14_AsStated ==
    ~isValid(mapView.cameraPosition)
        => \A i \in 1..Len(frame.log) : frame.log[i].e \notin DrawCalls

NoLighting == ~mapView.m_drawLights \/ mapView.m_lightView.null

\* C15 as stated: in a frame of a view with no light view, or with lighting
\* disabled, no setFloor, no setShade and no light composite is called.
C15_AsStated ==
    NoLighting
        => \A i \in 1..Len(frame.log) :
               frame.log[i].e \notin {"setFloor", "setShade", "LightViewPainter::draw"}

\* the part of C15 that the floor loop keeps: without lighting it calls neither
\* setFloor nor setShade and passes no light view to canRenderTile
FloorLoopWithoutLighting ==
    NoLighting
        => /\ frame.lightView.null
           /\ \A i \in 1..Len(frame.log) : frame.log[i].e \notin {"setFloor", "setShade"}

----------------------------------------------------------------------------
(* Claims on the shading *)

\* a south or east neighbour of the tile has ground and is not top-ground
Seam(tile) ==
    \E pos \in {translated(tile.pos, 0, 1), translated(tile.pos, 1, 0)} :
        \E z \in Floors : \E i \in 1..Len(g_map.tiles[z]) :
            /\ g_map.tiles[z][i].pos = pos
            /\ g_map.tiles[z][i].ground.present
            /\ ~g_map.tiles[z][i].ground.topGround

Own(tile) == transformPositionTo2D(tile.pos, mapView.cameraPosition)
Shifted(tile) == <<Own(tile)[1] - TileSize, Own(tile)[2] - TileSize>>

\* the points at which the step shades the tile
ShadesOf(tile) ==
    LET made == SelectSeq(Added, LAMBDA c : c.e = "setShade" /\ c.pos = tile.pos)
    IN  [i \in 1..Len(made) |-> made[i].p]

Points(seq) == {seq[i] : i \in 1..Len(seq)}

\* the pass for floor z shades floor z - 1
ShadingPass ==
    /\ frame.pc = "floor" /\ frame'.pc = "floor"
    /\ ~frame.lightView.null
    /\ frame.z - 1 >= mapView.m_floorMin

\* C16 as stated: every cached tile of floor z - 1 with a non-translucent ground
\* is shaded at its own 2D position, and also at the position shifted by one
\* tile size exactly when it is top-ground and has a seam; other tiles are not
\* shaded; no tile is shaded more than twice.
C16_AsStated ==
    [][ShadingPass =>
        \A i \in 1..Len(mapView.m_cachedVisibleTiles[frame.z - 1]) :
            LET tile == mapView.m_cachedVisibleTiles[frame.z - 1][i]
                shades == ShadesOf(tile)
            IN  /\ Len(shades) <= 2
                /\ Len(shades) = Cardinality(Points(shades))
                /\ Points(shades) =
                       IF ~tile.ground.present \/ tile.ground.translucent THEN {}
                       ELSE {Own(tile)}
                            \cup (IF tile.ground.topGround /\ Seam(tile)
                                  THEN {Shifted(tile)} ELSE {})]_vars

\* C16 (amended): every cached tile of floor z - 1 with a non-translucent ground
\* is shaded once at its 2D position, which for a top-ground tile is the
\* position shifted by one tile size; a top-ground tile is also shaded at its
\* own, unshifted position exactly when it has a seam; other tiles are not
\* shaded; no tile is shaded more than twice.
C16_Shading ==
    [][ShadingPass =>
        \A i \in 1..Len(mapView.m_cachedVisibleTiles[frame.z - 1]) :
            LET tile == mapView.m_cachedVisibleTiles[frame.z - 1][i]
                shades == ShadesOf(tile)
            IN  /\ Len(shades) <= 2
                /\ Len(shades) = Cardinality(Points(shades))
                /\ Points(shades) =
                       IF ~tile.ground.present \/ tile.ground.translucent THEN {}
                       ELSE IF tile.ground.topGround
                       THEN {Shifted(tile)} \cup (IF Seam(tile) THEN {Own(tile)} ELSE {})
                       ELSE {Own(tile)}]_vars

\* the shades of the tile in the frame so far
LoggedShades(tile) ==
    Points(SelectSeq(frame.log, LAMBDA c : c.e = "setShade" /\ c.pos = tile.pos))

\* C16 witness: floor 1 was shaded; its top-ground tile without a seam has the
\* shifted shade only, its top-ground tile with a seam has both.
C16_Witness ==
    /\ frame.pc = "floor" /\ frame.z = 1 /\ ~frame.lightView.null
    /\ mapView.m_floorMin <= 1
    /\ LET tiles == mapView.m_cachedVisibleTiles[1]
       IN  /\ tiles[1].ground.topGround /\ ~Seam(tiles[1])
           /\ {c.p : c \in LoggedShades(tiles[1])} = {Shifted(tiles[1])}
           /\ tiles[2].ground.topGround /\ Seam(tiles[2])
           /\ {c.p : c \in LoggedShades(tiles[2])} = {Shifted(tiles[2]), Own(tiles[2])}

----------------------------------------------------------------------------
(* Claims on resetState *)

\* the members resetState sets, with their values in a new painter
ResetMembers(P) ==
    [color |-> P.m_color, opacity |-> P.m_opacity,
     compositionMode |-> P.m_compositionMode, blendEquation |-> P.m_blendEquation,
     clipRect |-> P.m_clipRect, texture |-> P.m_texture,
     shaderProgram |-> P.m_shaderProgram, alphaWriting |-> P.m_alphaWriting,
     transformMatrix |-> P.m_transformMatrix]

\* C17 as stated: after resetState every field of the current state, the
\* projection and the texture matrix among them, has the value it has in a new
\* painter.
C17_AsStated ==
    (lastOp.op = "resetState" /\ painter.status = "ok")
        => /\ ResetMembers(painter) = ResetMembers(Members)
           /\ painter.m_textureMatrix = Members.m_textureMatrix
           /\ painter.m_projectionMatrix = PainterOGL(<<MaxDim, MaxDim>>).m_projectionMatrix

\* C17 (amended): after resetState the color, opacity, composition mode, blend
\* equation, clip rect, bound texture, shader, alpha-write flag and transform
\* matrix have their default values; the texture matrix, the projection matrix
\* and the resolution are as they were before the call.
C17_ResetState ==
    [][lastOp'.op = "resetState"
        => /\ painter'.status = "ok"
           /\ ResetMembers(painter') = ResetMembers(Members)
           /\ painter'.m_textureMatrix = painter.m_textureMatrix
           /\ painter'.m_projectionMatrix = painter.m_projectionMatrix
           /\ painter'.m_resolution = painter.m_resolution]_vars

\* C17 witness: resetState was called with a texture bound; the texture is
\* unbound and its matrix is still the texture matrix.
C17_Witness ==
    /\ lastOp.op = "resetState"
    /\ painter.status = "ok"
    /\ painter.m_texture = Null
    /\ painter.m_textureMatrix = TextureMatrix("T1")
    /\ ResetMembers(painter) = ResetMembers(Members)

----------------------------------------------------------------------------
(* Claims on the layers *)

Layers ==
    {"DRAWTYPE_MAP", "DRAWTYPE_LIGHT", "DRAWTYPE_CREATURE_INFORMATION",
     "DRAWTYPE_STATIC_TEXT", "DRAWTYPE_DYNAMIC_TEXT"}

\* the calls that are the work of a layer
WorkOf(layer) ==
    CASE layer = "DRAWTYPE_MAP" ->
             FloorCalls \cup {"drawEffect", "setOpacity", "addTexturedRect", "resetOpacity"}
      [] layer = "DRAWTYPE_LIGHT" -> {"LightViewPainter::draw"}
      [] layer = "DRAWTYPE_CREATURE_INFORMATION" -> {"drawInformation"}
      [] layer = "DRAWTYPE_STATIC_TEXT" -> {"drawStaticText"}
      [] layer = "DRAWTYPE_DYNAMIC_TEXT" -> {"drawAnimatedText"}

\* the answers the batcher gave for the layer in the frame so far
Asked(layer) ==
    SelectSeq(frame.log, LAMBDA c : c.e = "drawUp" /\ c.p[1] = layer)

Worked(layer) == \E i \in 1..Len(frame.log) : frame.log[i].e \in WorkOf(layer)

FrameDone == frame.pc = "idle" /\ frame.log # <<>>

\* the layer is switched on in the view
Enabled(layer) ==
    CASE layer = "DRAWTYPE_MAP" -> TRUE
      [] layer = "DRAWTYPE_LIGHT" -> mapView.m_drawLights
      [] layer = "DRAWTYPE_CREATURE_INFORMATION" ->
             mapView.m_drawNames \/ mapView.m_drawHealthBars \/ mapView.m_drawManaBar
      [] layer = "DRAWTYPE_STATIC_TEXT" -> mapView.m_drawTexts /\ g_map.staticTexts # <<>>
      [] layer = "DRAWTYPE_DYNAMIC_TEXT" -> mapView.m_drawTexts /\ g_map.animatedTexts # <<>>

\* C18: in a frame the batcher is asked at most once about each layer, the
\* calls that are the work of a layer are made only after the batcher answered
\* "rebuild" for it, and at the end of the frame every layer that is switched
\* on has been asked about, whatever the answer for the map layer was.
C18_Layers ==
    \A layer \in Layers :
        /\ Len(Asked(layer)) <= 1
        /\ Worked(layer) => Asked(layer) = <<DrawUp(layer, TRUE)>>
        /\ FrameDone => (Len(Asked(layer)) = 1 <=> Enabled(layer))

\* C18 witness: a frame is done in which the batcher answered "no rebuild" for
\* the map layer and "rebuild" for the other four, whose work was done.
C18_Witness ==
    /\ FrameDone
    /\ Asked("DRAWTYPE_MAP") = <<DrawUp("DRAWTYPE_MAP", FALSE)>>
    /\ ~Worked("DRAWTYPE_MAP")
    /\ \A layer \in Layers \ {"DRAWTYPE_MAP"} :
           Asked(layer) = <<DrawUp(layer, TRUE)>> /\ Worked(layer)

----------------------------------------------------------------------------
(* Claims on the stages of a frame *)

CrosshairCalls == {"drawEffect", "setOpacity", "addTexturedRect", "resetOpacity"}

\* the stage of the frame a call belongs to, 0 for a call of no stage
Stage(c) ==
    CASE c.e \in FloorCalls -> 1
      [] c.e \in CrosshairCalls -> 2
      [] c.e = "LightViewPainter::draw" -> 3
      [] c.e = "drawInformation" -> 4
      [] c.e = "drawStaticText" -> 5
      [] c.e = "drawAnimatedText" -> 6
      [] OTHER -> 0

Logged(e) == \E i \in 1..Len(frame.log) : frame.log[i].e = e

\* C19: in a frame the calls of the floor loop come first, then those of the
\* crosshair, then the light composite, then creature information, then static
\* texts, then animated texts. The composite is made at most once and only
\* with m_drawLights set. The crosshair is drawn only with a crosshair texture
\* and a valid mouse position, after the end-of-floor hook of m_floorMin; its
\* last call is resetOpacity and the painter's opacity is the default after it.
C19_StageOrder ==
    LET staged == SelectSeq(frame.log, LAMBDA c : Stage(c) > 0)
        crosshair == SelectSeq(frame.log, LAMBDA c : c.e \in CrosshairCalls)
    IN  /\ \A i \in 1..(Len(staged) - 1) : Stage(staged[i]) <= Stage(staged[i + 1])
        /\ Len(Calls(frame.log, "LightViewPainter::draw")) <= 1
        /\ Logged("LightViewPainter::draw") => mapView.m_drawLights
        /\ Len(Calls(frame.log, "addTexturedRect")) <= 1
        /\ crosshair # <<>> =>
               /\ mapView.m_crosshairTexture /\ mapView.m_mousePositionValid
               /\ Logged("addTexturedRect")
               /\ crosshair[Len(crosshair)].e = "resetOpacity"
               /\ \E i \in 1..Len(frame.log) :
                      /\ frame.log[i].e = "onFloorDrawingEnd"
                      /\ frame.log[i].z = mapView.m_floorMin
        /\ frame.pc \notin {"map", "floor"} => painter.m_opacity = DefaultOpacity

\* C19 witness: a frame is done that went through every stage, the crosshair
\* drawn over its effect at partial opacity.
C19_Witness ==
    /\ FrameDone
    /\ painter.m_opacity = DefaultOpacity
    /\ \A e \in {"onFloorDrawingEnd", "drawEffect", "setOpacity", "addTexturedRect",
                 "resetOpacity", "LightViewPainter::draw", "drawInformation",
                 "drawStaticText", "drawAnimatedText"} : Logged(e)

----------------------------------------------------------------------------
(* Claims on the rect cache *)

\* a frame begins
FrameBegins == frame.pc = "idle" /\ frame'.pc = "map"

Recomputed == \E i \in 1..Len(frame'.log) : frame'.log[i].e = "calcFramebufferSource"

\* C20: a frame recomputes the rect cache exactly when its destination rect
\* differs from the cached rect, which is the rect of the last recomputation;
\* after the recomputation the cache holds the frame's rect, the source rect,
\* its top left corner as draw offset and the two stretch factors; a frame with
\* the cached rect leaves every field of the cache as it is, as does every
\* later step of a frame, so that the cached rect is the frame's rect
\* throughout the frame.
C20_RectCache ==
    [][IF FrameBegins
       THEN /\ Recomputed <=> frame'.rect # mapView.m_rectCache.rect
            /\ mapView'.m_rectCache.rect = frame'.rect
            /\ ~Recomputed => mapView'.m_rectCache = mapView.m_rectCache
            /\ Recomputed =>
                   LET c == mapView'.m_rectCache
                   IN  /\ c.drawOffset = <<c.srcRect.x, c.srcRect.y>>
                       /\ c.horizontalStretchFactor = <<frame'.rect.width, c.srcRect.width>>
                       /\ c.verticalStretchFactor = <<frame'.rect.height, c.srcRect.height>>
       ELSE /\ mapView'.m_rectCache = mapView.m_rectCache
            /\ frame'.rect = frame.rect]_vars

\* C20 witness: a frame has begun with the rect of the frame before it and has
\* not recomputed the cache.
C20_Witness ==
    /\ frame.pc = "map"
    /\ frame.rect \in Rects
    /\ mapView.m_rectCache.rect = frame.rect
    /\ ~Logged("calcFramebufferSource")

----------------------------------------------------------------------------
(* The transform stack and the saved states together *)

\* the deepest either stack is driven here
MaxDepth == 2

PushTransformMatrixShallow ==
    /\ Len(painter.m_transformMatrixStack) < MaxDepth
    /\ PushTransformMatrix

SaveStateShallow ==
    /\ painter.m_oldStateIndex < MaxDepth
    /\ SaveState

NextStacks ==
    \/ PushTransformMatrixShallow
    \/ PopTransformMatrix
    \/ SaveStateShallow
    \/ SaveAndResetState
    \/ RestoreSavedState({Null})
    \/ ResetState
    \/ SetOpacity({65}, TRUE)
    \/ Translate(Offsets, TRUE)

SpecStacks == InitState /\ [][NextStacks]_vars

StateMethods == {"saveState", "restoreSavedState", "saveAndResetState", "resetState"}

TransformStackMethods == {"pushTransformMatrix", "popTransformMatrix"}

Top(stack) == stack[Len(stack)]

Front(stack) == SubSeq(stack, 1, Len(stack) - 1)

\* C21: the methods of the saved states leave the transform stack as it is, and
\* pushTransformMatrix and popTransformMatrix leave the saved states and their
\* index as they are. An entry of the transform stack is the transform matrix
\* at the push that made it: a push appends the current matrix, no call but
\* push and pop touches the stack, so whatever setters, transforms, saves and
\* restores ran in between, the matching pop finds that matrix on top, makes it
\* the current one and removes it. A pop on an empty stack fails its assertion
\* and changes nothing.
C21_Stacks ==
    [][LET stack == painter.m_transformMatrixStack
           op == lastOp'.op
       IN  /\ op \notin TransformStackMethods
                => painter'.m_transformMatrixStack = stack
           /\ op \in TransformStackMethods
                => /\ painter'.m_oldStateIndex = painter.m_oldStateIndex
                   /\ painter'.m_olderStates = painter.m_olderStates
           /\ op = "pushTransformMatrix"
                => /\ painter'.m_transformMatrixStack
                          = Append(stack, painter.m_transformMatrix)
                   /\ painter'.m_transformMatrix = painter.m_transformMatrix
           /\ (op = "popTransformMatrix" /\ Len(stack) > 0)
                => /\ painter'.m_transformMatrix = Top(stack)
                   /\ painter'.m_transformMatrixStack = Front(stack)
                   /\ painter'.status = "ok"
           /\ (op = "popTransformMatrix" /\ Len(stack) = 0)
                => painter' = [painter EXCEPT !.status = "assert"]]_vars

\* a pop has made a translated matrix the current one while a state saved with
\* the identity is still held and a different matrix is left on the stack
C21_Witness ==
    /\ lastOp.op = "popTransformMatrix"
    /\ painter.status = "ok"
    /\ painter.m_transformMatrix # Identity
    /\ painter.m_oldStateIndex > 0
    /\ painter.m_olderStates[1].transformMatrix = Identity
    /\ Len(painter.m_transformMatrixStack) = 1
    /\ painter.m_transformMatrixStack[1] # painter.m_transformMatrix

----------------------------------------------------------------------------
(* Claims on the visible-tile cache *)

TileDraws == {"drawGround", "drawBottom", "drawTop"}

\* the positions of the tiles of the calls of e, in the order of the calls
TilesOf(seg, e) == [i \in 1..Len(Calls(seg, e)) |-> Calls(seg, e)[i].pos]

\* the positions of the tiles of floor z in the cache that canRenderTile lets
\* through, in the order of the cache
Rendered(mv, lightView, z) ==
    LET kept == SelectSeq(mv.m_cachedVisibleTiles[z],
                          LAMBDA tile : canRenderTile(mv, tile, mv.m_viewport, lightView))
    IN  [i \in 1..Len(kept) |-> kept[i].pos]

\* every draw of a tile lies between a drawStart and the next drawEnd, both for
\* that tile; brackets do not nest and none is left open or empty
Bracketed(seg) ==
    LET tileCalls == SelectSeq(seg, LAMBDA c : c.e \in TileDraws \cup {"drawStart", "drawEnd"})
        open[i \in 0..Len(tileCalls)] ==
            IF i = 0 THEN <<>>
            ELSE IF tileCalls[i].e = "drawStart" THEN <<tileCalls[i].pos>>
            ELSE IF tileCalls[i].e = "drawEnd" THEN <<>>
            ELSE open[i - 1]
    IN  /\ \A i \in 1..Len(tileCalls) :
               IF tileCalls[i].e = "drawStart"
               THEN /\ open[i - 1] = <<>>
                    /\ i < Len(tileCalls) /\ tileCalls[i + 1].e \in TileDraws
               ELSE open[i - 1] = <<tileCalls[i].pos>>
        /\ open[Len(tileCalls)] = <<>>

\* C22: the frame refreshes the visible-tile cache in its first step, if and
\* only if the dirty flag is set, and no later step of the frame changes the
\* cache or the flag; the pass for floor z draws the ground of the tiles of
\* floor z in the cache for which canRenderTile holds, in the order of the
\* cache, then the items of the same tiles in the same order, and every draw
\* of a tile lies between one drawStart and one drawEnd for that tile.
C22_CacheReadOnly ==
    [][/\ (frame.pc = "idle" /\ frame'.pc # "idle")
            => mapView'.m_cachedVisibleTiles =
                   IF mapView.m_mustUpdateVisibleTilesCache
                   THEN updateVisibleTilesCache(mapView, g_map).m_cachedVisibleTiles
                   ELSE mapView.m_cachedVisibleTiles
       /\ ~(frame.pc = "idle" /\ frame'.pc # "idle")
            => mapView'.m_cachedVisibleTiles = mapView.m_cachedVisibleTiles
       /\ frame.pc # "idle"
            => /\ ~mapView.m_mustUpdateVisibleTilesCache
               /\ ~mapView'.m_mustUpdateVisibleTilesCache
               /\ \A i \in 1..Len(Added) : Added[i].e # "updateVisibleTilesCache"
       /\ (frame.pc = "floor" /\ frame'.pc = "floor")
            => /\ TilesOf(Added, "drawGround") = Rendered(mapView, frame.lightView, frame.z)
               /\ TilesOf(Added, "drawBottom") = Rendered(mapView, frame.lightView, frame.z)
               /\ TilesOf(Added, "drawTop") = Rendered(mapView, frame.lightView, frame.z)
               /\ Bracketed(Added)
               /\ \A i \in 1..Len(Added) :
                      Added[i].e \in TileDraws \cup {"drawStart", "drawEnd"}
                          => Added[i].z = frame.z]_vars

\* C22 witness: a frame that refreshed the cache in its first step has drawn
\* floor m_floorMax, whose three cached tiles canRenderTile cut down to two,
\* ground and items
C22_Witness ==
    /\ frame.pc = "floor"
    /\ frame.z < mapView.m_floorMax
    /\ frame.log[1].e = "updateVisibleTilesCache"
    /\ LET z == mapView.m_floorMax
           ofFloor == SelectSeq(frame.log, LAMBDA c : c.z = z)
       IN  /\ Len(mapView.m_cachedVisibleTiles[z]) = 3
           /\ Len(TilesOf(ofFloor, "drawGround")) = 2
           /\ TilesOf(ofFloor, "drawGround") = Rendered(mapView, frame.lightView, z)
           /\ TilesOf(ofFloor, "drawBottom") = TilesOf(ofFloor, "drawGround")

====
